---- MODULE Spec2Model ----
(***************************************************************************)
(* A model of hash.h: a chained hash table of HASHSIZE buckets whose keys  *)
(* and elements are untyped references, parameterised by three callbacks   *)
(* (cmp, hash, onRemove).  Memory is modelled explicitly: the bucket       *)
(* array, the HashList nodes and the HashPair entries are blocks of a      *)
(* small heap, NULL is 0, and a reference to an entry's element slot is    *)
(* the address of its HashPair block.                                      *)
(***************************************************************************)
EXTENDS Integers, Sequences, FiniteSets, TLC

\* ------------------------------------------------------------------ bounds

\* Key references 1..NumKeys, plus one more that shares a bucket with key 1.
NumKeys == 2
\* Element values the caller writes: 0..MaxVal (0 is the null element).
MaxVal == 1
\* Blocks the heap can hold at one time (addresses 1..MemBlocks).
MemBlocks == 7

\* ------------------------------------------------------- program constants

HASHSIZE == 101

\* ------------------------------------------------------------------- state

VARIABLES
    table,    \* struct HashTable: hashListArr, cmp, hash, onRemove
    arrs,     \* live bucket arrays: address -> [0..HASHSIZE-1 -> HashList*]
    lists,    \* live HashList nodes: address -> [next, pair]
    pairs,    \* live HashPair entries: address -> [key, element]
    last,     \* the call just made: [op, key, ret, args], and the table before it
    events,   \* what the call just made did to the heap and the callbacks
    slotOf,   \* history: key -> reference HashTable_At last returned for it
    wrote,    \* history: reference -> value last written through it, or -1
    created,  \* history: the entries HashTable_At allocated since the last
              \* HashTable_Init, in order: [node, pair, key]
    thr       \* the calls in progress when a call is run statement by
              \* statement: caller -> [pc, op, key, list, next, l, i]

vars == <<table, arrs, lists, pairs, last, events, slotOf, wrote, created, thr>>

Keys == (1..NumKeys) \cup {HASHSIZE + 1}
Vals == 0..MaxVal
Addrs == 1..MemBlocks

\* The heap as one value, for the operators that thread it through a call.
Mem == [arrs |-> arrs, lists |-> lists, pairs |-> pairs]

Used(m) == DOMAIN m.arrs \cup DOMAIN m.lists \cup DOMAIN m.pairs

\* malloc/calloc: the lowest address not in use.
Malloc(m) == CHOOSE a \in Addrs \ Used(m) : \A b \in Addrs \ Used(m) : a <= b

\* free: the block leaves the heap.
Free(f, a) == [x \in DOMAIN f \ {a} |-> f[x]]

Event(ev, addr, key, element) ==
    [ev |-> ev, addr |-> addr, key |-> key, element |-> element]

\* --------------------------------------------------------------- callbacks

\* The characters at a key reference, for the string callbacks, as values of
\* a signed char: keys 1 and 2 both hold "a", key 3 holds "b", and key
\* HASHSIZE+1 holds the one byte 0xB8, which is -72.
StringAt(k) ==
    IF k > HASHSIZE THEN <<-72>>
    ELSE IF k % 3 = 0 THEN <<98>>
    ELSE <<97>>

CharAt(s, i) == IF i <= Len(s) THEN s[i] ELSE 0

\* strcmp compares the characters as unsigned char.
UChar(c) == c % 256

RECURSIVE strcmpFrom(_, _, _)
strcmpFrom(s, t, i) ==
    IF CharAt(s, i) # CharAt(t, i) THEN UChar(CharAt(s, i)) - UChar(CharAt(t, i))
    ELSE IF CharAt(s, i) = 0 THEN 0
    ELSE strcmpFrom(s, t, i + 1)

strcmp(s, t) == strcmpFrom(s, t, 1)

\* The function references a table can hold; 0 is the null reference.
CmpStr == 1
CmpPtr == 2
CmpNe == 3
HashStr == 1
HashPtr == 2
\* An onRemove of the caller that records the pair it is given, with its key
\* and element, and returns; it dereferences neither. (The onRemove of README
\* Example 2 dereferences the element and so needs every element written
\* before HashTable_Destroy; it is not among the callbacks here.)
OnRemoveLog == 1

\* The keys that hold a NaN when the keys refer to doubles: key 2.
IsNaN(k) == k % HASHSIZE = 2

\* cmp: 0 when the keys are equal. CmpNe compares the doubles at the keys
\* with !=, which a NaN fails against itself.
cmp(f, a, b) ==
    IF f = CmpStr THEN strcmp(StringAt(a), StringAt(b))
    ELSE IF f = CmpPtr THEN a - b
    ELSE IF IsNaN(a) \/ IsNaN(b) \/ a # b THEN 1
    ELSE 0

RECURSIVE hashFrom(_, _, _)
hashFrom(s, i, hashval) ==
    IF CharAt(s, i) = 0 THEN hashval
    ELSE hashFrom(s, i + 1, CharAt(s, i) + 31 * hashval)

\* An unsigned int is kept as its two 16-bit halves.
Half == 65536

\* The conversion of an int to unsigned int: n modulo 2^32.
U32(n) ==
    IF n >= 0 THEN [hi |-> n \div Half, lo |-> n % Half]
    ELSE [hi |-> (Half - 1) - ((-n - 1) \div Half),
          lo |-> (Half - 1) - ((-n - 1) % Half)]

\* hash: the hashcode of a key, an unsigned int.
hash(f, key) ==
    IF f = HashStr THEN U32(hashFrom(StringAt(key), 1, 0))
    ELSE U32(key)

\* ----------------------------------------------------------------- hash.h

HashTable_Ready(t) == t.hash # 0

\* idx % HASHSIZE with idx held in an unsigned short.
IndexLow16(idx) == idx.lo % HASHSIZE

\* idx % HASHSIZE for an unsigned int idx.
Index(idx) == ((idx.hi % HASHSIZE) * (Half % HASHSIZE) + idx.lo) % HASHSIZE

ZeroArr == [i \in 0..(HASHSIZE - 1) |-> 0]

\* HashTable_Init that stores onRemove only when one is passed.
HashTable_InitKeepsOnRemove(t, m, c, h, r) ==
    LET a == Malloc(m)
    IN [t |-> [hashListArr |-> a, cmp |-> c, hash |-> h,
               onRemove |-> IF r # 0 THEN r ELSE t.onRemove],
        m |-> [m EXCEPT !.arrs = (a :> ZeroArr) @@ m.arrs],
        events |-> <<Event("calloc", a, 0, 0)>>]

\* HashTable_Init that keeps the bucket array of a table that is ready.
HashTable_InitKeepsArray(t, m, c, h, r) ==
    LET a == Malloc(m)
    IN IF HashTable_Ready(t)
       THEN [t |-> [t EXCEPT !.cmp = c, !.hash = h, !.onRemove = r],
             m |-> m,
             events |-> <<>>]
       ELSE [t |-> [hashListArr |-> a, cmp |-> c, hash |-> h, onRemove |-> r],
             m |-> [m EXCEPT !.arrs = (a :> ZeroArr) @@ m.arrs],
             events |-> <<Event("calloc", a, 0, 0)>>]

HashTable_Init(t, m, c, h, r) ==
    LET a == Malloc(m)
    IN [t |-> [hashListArr |-> a, cmp |-> c, hash |-> h, onRemove |-> r],
        m |-> [m EXCEPT !.arrs = (a :> ZeroArr) @@ m.arrs],
        events |-> <<Event("calloc", a, 0, 0)>>]

\* A struct HashList** is the place of a link: a slot of the bucket array
\* (node = 0) or the next field of a node.
Slot(i) == [node |-> 0, slot |-> i]
NextOf(n) == [node |-> n, slot |-> 0]

Load(t, m, loc) ==
    IF loc.node = 0 THEN m.arrs[t.hashListArr][loc.slot]
    ELSE m.lists[loc.node].next

Store(t, m, loc, l) ==
    IF loc.node = 0
    THEN [m EXCEPT !.arrs[t.hashListArr][loc.slot] = l]
    ELSE [m EXCEPT !.lists[loc.node].next = l]

\* The walk of HashTable_Has that stops at the head of the chain.
HasLoopNoWalk(t, m, list, key) == list

RECURSIVE HasLoop(_, _, _, _)
HasLoop(t, m, list, key) ==
    IF Load(t, m, list) # 0
       /\ cmp(t.cmp, key, m.pairs[m.lists[Load(t, m, list)].pair].key) # 0
    THEN HasLoop(t, m, NextOf(Load(t, m, list)), key)
    ELSE list

\* HashTable_Has looking for an equal key in every entry of the heap.
HashTable_HasAnyBucket(t, m, key) ==
    LET equal == {p \in DOMAIN m.pairs : cmp(t.cmp, key, m.pairs[p].key) = 0}
    IN IF equal # {} THEN CHOOSE p \in equal : TRUE ELSE 0

HashTable_Has(t, m, key) ==
    LET idx == hash(t.hash, key)
        list == HasLoop(t, m, Slot(Index(idx)), key)
    IN IF Load(t, m, list) # 0 THEN m.lists[Load(t, m, list)].pair ELSE 0

RECURSIVE AtLoopPtrEq(_, _, _, _, _)
\* The loop of HashTable_At comparing the key references instead of calling cmp.
AtLoopPtrEq(t, m, next, key, evs) ==
    LET list == next
        l == Malloc(m)
        p == Malloc([m EXCEPT !.lists = (l :> [next |-> 0, pair |-> 0]) @@ m.lists])
        miss == Load(t, m, list) = 0
        m1 == IF miss
              THEN Store(t,
                         [m EXCEPT !.lists = (l :> [next |-> 0, pair |-> p]) @@ m.lists,
                                   !.pairs = (p :> [key |-> key, element |-> 0]) @@ m.pairs],
                         list, l)
              ELSE m
        evs1 == IF miss
                THEN evs \o <<Event("malloc", l, 0, 0), Event("malloc", p, 0, 0)>>
                ELSE evs
        node == Load(t, m1, list)
    IN IF key # m1.pairs[m1.lists[node].pair].key
       THEN AtLoopPtrEq(t, m1, NextOf(node), key, evs1)
       ELSE [m |-> m1, ret |-> m1.lists[node].pair, events |-> evs1]

RECURSIVE AtLoopZeroes(_, _, _, _, _)
\* The loop of HashTable_At clearing the element of the entry it ends on,
\* found or new.
AtLoopZeroes(t, m, next, key, evs) ==
    LET list == next
        l == Malloc(m)
        p == Malloc([m EXCEPT !.lists = (l :> [next |-> 0, pair |-> 0]) @@ m.lists])
        miss == Load(t, m, list) = 0
        m1 == IF miss
              THEN Store(t,
                         [m EXCEPT !.lists = (l :> [next |-> 0, pair |-> p]) @@ m.lists,
                                   !.pairs = (p :> [key |-> key, element |-> 0]) @@ m.pairs],
                         list, l)
              ELSE m
        evs1 == IF miss
                THEN evs \o <<Event("malloc", l, 0, 0), Event("malloc", p, 0, 0)>>
                ELSE evs
        node == Load(t, m1, list)
    IN IF cmp(t.cmp, key, m1.pairs[m1.lists[node].pair].key) # 0
       THEN AtLoopZeroes(t, m1, NextOf(node), key, evs1)
       ELSE [m |-> [m1 EXCEPT !.pairs[m1.lists[node].pair].element = 0],
             ret |-> m1.lists[node].pair, events |-> evs1]

RECURSIVE AtLoopRekeys(_, _, _, _, _)
\* The loop of HashTable_At storing the key it was called with in the entry
\* it ends on, found or new.
AtLoopRekeys(t, m, next, key, evs) ==
    LET list == next
        l == Malloc(m)
        p == Malloc([m EXCEPT !.lists = (l :> [next |-> 0, pair |-> 0]) @@ m.lists])
        miss == Load(t, m, list) = 0
        m1 == IF miss
              THEN Store(t,
                         [m EXCEPT !.lists = (l :> [next |-> 0, pair |-> p]) @@ m.lists,
                                   !.pairs = (p :> [key |-> key, element |-> 0]) @@ m.pairs],
                         list, l)
              ELSE m
        evs1 == IF miss
                THEN evs \o <<Event("malloc", l, 0, 0), Event("malloc", p, 0, 0)>>
                ELSE evs
        node == Load(t, m1, list)
    IN IF cmp(t.cmp, key, m1.pairs[m1.lists[node].pair].key) # 0
       THEN AtLoopRekeys(t, m1, NextOf(node), key, evs1)
       ELSE [m |-> [m1 EXCEPT !.pairs[m1.lists[node].pair].key = key],
             ret |-> m1.lists[node].pair, events |-> evs1]

RECURSIVE AtLoop(_, _, _, _, _)
AtLoop(t, m, next, key, evs) ==
    LET list == next
        l == Malloc(m)
        p == Malloc([m EXCEPT !.lists = (l :> [next |-> 0, pair |-> 0]) @@ m.lists])
        miss == Load(t, m, list) = 0
        m1 == IF miss
              THEN Store(t,
                         [m EXCEPT !.lists = (l :> [next |-> 0, pair |-> p]) @@ m.lists,
                                   !.pairs = (p :> [key |-> key, element |-> 0]) @@ m.pairs],
                         list, l)
              ELSE m
        evs1 == IF miss
                THEN evs \o <<Event("malloc", l, 0, 0), Event("malloc", p, 0, 0)>>
                ELSE evs
        node == Load(t, m1, list)
    IN IF cmp(t.cmp, key, m1.pairs[m1.lists[node].pair].key) # 0
       THEN AtLoop(t, m1, NextOf(node), key, evs1)
       ELSE [m |-> m1, ret |-> m1.lists[node].pair, events |-> evs1]

\* HashTable_At without chaining: a new entry takes the slot of its bucket,
\* whatever the slot held.
HashTable_AtNoChain(t, m, key) ==
    LET idx == hash(t.hash, key)
        found == HashTable_Has(t, m, key)
        l == Malloc(m)
        p == Malloc([m EXCEPT !.lists = (l :> [next |-> 0, pair |-> 0]) @@ m.lists])
    IN IF found # 0
       THEN [m |-> m, ret |-> found, events |-> <<>>]
       ELSE [m |-> Store(t,
                         [m EXCEPT !.lists = (l :> [next |-> 0, pair |-> p]) @@ m.lists,
                                   !.pairs = (p :> [key |-> key, element |-> 0]) @@ m.pairs],
                         Slot(Index(idx)), l),
             ret |-> p,
             events |-> <<Event("malloc", l, 0, 0), Event("malloc", p, 0, 0)>>]

\* HashTable_At linking a new entry at the head of its chain.
HashTable_AtPrepend(t, m, key) ==
    LET idx == hash(t.hash, key)
        found == HashTable_Has(t, m, key)
        l == Malloc(m)
        p == Malloc([m EXCEPT !.lists = (l :> [next |-> 0, pair |-> 0]) @@ m.lists])
        head == Load(t, m, Slot(Index(idx)))
    IN IF found # 0
       THEN [m |-> m, ret |-> found, events |-> <<>>]
       ELSE [m |-> Store(t,
                         [m EXCEPT !.lists = (l :> [next |-> head, pair |-> p]) @@ m.lists,
                                   !.pairs = (p :> [key |-> key, element |-> 0]) @@ m.pairs],
                         Slot(Index(idx)), l),
             ret |-> p,
             events |-> <<Event("malloc", l, 0, 0), Event("malloc", p, 0, 0)>>]

\* HashTable_At moving the pair of a found entry to a new block, when the
\* heap has one.
HashTable_AtMovesPair(t, m, key) ==
    LET idx == hash(t.hash, key)
        found == HashTable_Has(t, m, key)
        r == AtLoop(t, m, Slot(Index(idx)), key, <<>>)
        q == Malloc(m)
        node == CHOOSE n \in DOMAIN m.lists : m.lists[n].pair = found
    IN IF found # 0 /\ Addrs \ Used(m) # {}
       THEN [m |-> [m EXCEPT !.pairs = (q :> m.pairs[found]) @@ Free(m.pairs, found),
                             !.lists[node].pair = q],
             ret |-> q,
             events |-> <<Event("malloc", q, 0, 0), Event("free", found, 0, 0)>>]
       ELSE r

HashTable_At(t, m, key) ==
    LET idx == hash(t.hash, key)
    IN AtLoop(t, m, Slot(Index(idx)), key, <<>>)

\* The chain walk of HashTable_Destroy handling the first node only.
DestroyChainHeadOnly(t, m, l, evs) ==
    IF l = 0 THEN [m |-> m, events |-> evs]
    ELSE LET p == m.lists[l].pair
             called == IF t.onRemove # 0
                       THEN <<Event("onRemove", p, m.pairs[p].key, m.pairs[p].element)>>
                       ELSE <<>>
         IN [m |-> [m EXCEPT !.pairs = Free(m.pairs, p), !.lists = Free(m.lists, l)],
             events |-> evs \o <<Event("read", l, 0, 0)>> \o called
                            \o <<Event("read", l, 0, 0), Event("free", p, 0, 0),
                                 Event("free", l, 0, 0)>>]

\* The while loop over one chain reading l->next after free(l).
RECURSIVE DestroyChainReadsFreed(_, _, _, _)
DestroyChainReadsFreed(t, m, l, evs) ==
    IF l = 0 THEN [m |-> m, events |-> evs]
    ELSE LET next == m.lists[l].next
             p == m.lists[l].pair
             called == IF t.onRemove # 0
                       THEN <<Event("read", l, 0, 0),
                              Event("onRemove", p, m.pairs[p].key, m.pairs[p].element)>>
                       ELSE <<>>
             m1 == [m EXCEPT !.pairs = Free(m.pairs, p), !.lists = Free(m.lists, l)]
         IN DestroyChainReadsFreed(t, m1, next,
                                   evs \o called
                                       \o <<Event("read", l, 0, 0), Event("free", p, 0, 0),
                                            Event("free", l, 0, 0), Event("read", l, 0, 0)>>)

\* The while loop over one chain without the free of the pair.
RECURSIVE DestroyChainLeaksPair(_, _, _, _)
DestroyChainLeaksPair(t, m, l, evs) ==
    IF l = 0 THEN [m |-> m, events |-> evs]
    ELSE LET next == m.lists[l].next
             p == m.lists[l].pair
             called == IF t.onRemove # 0
                       THEN <<Event("read", l, 0, 0),
                              Event("onRemove", p, m.pairs[p].key, m.pairs[p].element)>>
                       ELSE <<>>
             m1 == [m EXCEPT !.lists = Free(m.lists, l)]
         IN DestroyChainLeaksPair(t, m1, next,
                                  evs \o <<Event("read", l, 0, 0)>> \o called
                                      \o <<Event("free", l, 0, 0)>>)

\* The while loop over one chain. The trace records, for each node l: the
\* read of l->next, the read of l->pair and the onRemove call when there is
\* an onRemove, the read of l->pair for free, and the two frees.
RECURSIVE DestroyChain(_, _, _, _)
DestroyChain(t, m, l, evs) ==
    IF l = 0 THEN [m |-> m, events |-> evs]
    ELSE LET next == m.lists[l].next
             p == m.lists[l].pair
             called == IF t.onRemove # 0
                       THEN <<Event("read", l, 0, 0),
                              Event("onRemove", p, m.pairs[p].key, m.pairs[p].element)>>
                       ELSE <<>>
             m1 == [m EXCEPT !.pairs = Free(m.pairs, p), !.lists = Free(m.lists, l)]
         IN DestroyChain(t, m1, next,
                         evs \o <<Event("read", l, 0, 0)>> \o called
                             \o <<Event("read", l, 0, 0), Event("free", p, 0, 0),
                                  Event("free", l, 0, 0)>>)

\* The for loop over the buckets walking from the last bucket down to bucket
\* i: the chains still in the heap, highest index first.
RECURSIVE DestroyBucketsDown(_, _, _, _)
DestroyBucketsDown(t, m, i, evs) ==
    LET arr == m.arrs[t.hashListArr]
        rest == {j \in i..(HASHSIZE - 1) : arr[j] \in DOMAIN m.lists}
    IN IF rest # {}
       THEN LET j == CHOOSE x \in rest : \A y \in rest : x >= y
                r == DestroyChain(t, m, arr[j],
                                  evs \o <<Event("read", t.hashListArr, 0, 0)>>)
            IN DestroyBucketsDown(t, r.m, i, r.events)
       ELSE [m |-> m, events |-> evs]

\* The for loop over the buckets, from bucket i on: an empty bucket's
\* iteration reads its slot and does nothing more, so the walk goes from one
\* non-empty bucket to the next in ascending index order, and the trace
\* records the read of the slot of a non-empty bucket.
RECURSIVE DestroyBuckets(_, _, _, _)
DestroyBuckets(t, m, i, evs) ==
    LET arr == m.arrs[t.hashListArr]
        rest == {j \in i..(HASHSIZE - 1) : arr[j] # 0}
    IN IF rest # {}
       THEN LET j == CHOOSE x \in rest : \A y \in rest : x <= y
                r == DestroyChain(t, m, arr[j],
                                  evs \o <<Event("read", t.hashListArr, 0, 0)>>)
            IN DestroyBuckets(t, r.m, j + 1, r.events)
       ELSE [m |-> m, events |-> evs]

\* HashTable_Destroy leaving the hash reference in place.
HashTable_DestroyKeepsHash(t, m) ==
    IF HashTable_Ready(t)
    THEN LET r == DestroyBuckets(t, m, 0, <<>>)
         IN [t |-> t,
             m |-> [r.m EXCEPT !.arrs = Free(r.m.arrs, t.hashListArr)],
             events |-> r.events \o <<Event("free", t.hashListArr, 0, 0)>>]
    ELSE [t |-> t, m |-> m, events |-> <<>>]

\* HashTable_Destroy freeing the bucket array outside the readiness test.
HashTable_DestroyFreesAlways(t, m) ==
    LET r == IF HashTable_Ready(t)
             THEN DestroyBuckets(t, m, 0, <<>>)
             ELSE [m |-> m, events |-> <<>>]
    IN [t |-> [t EXCEPT !.hash = 0],
        m |-> [r.m EXCEPT !.arrs = Free(r.m.arrs, t.hashListArr)],
        events |-> r.events \o <<Event("free", t.hashListArr, 0, 0),
                                 Event("unready", 0, 0, 0)>>]

\* The trace of a HashTable_Destroy on a ready table ends with the free of
\* the bucket array and the store of 0 to hashTable->hash.
HashTable_Destroy(t, m) ==
    IF HashTable_Ready(t)
    THEN LET r == DestroyBuckets(t, m, 0, <<>>)
         IN [t |-> [t EXCEPT !.hash = 0],
             m |-> [r.m EXCEPT !.arrs = Free(r.m.arrs, t.hashListArr)],
             events |-> r.events \o <<Event("free", t.hashListArr, 0, 0),
                                      Event("unready", 0, 0, 0)>>]
    ELSE [t |-> t, m |-> m, events |-> <<>>]

\* ----------------------------------------------------------------- actions

NoSlots == [k \in Keys |-> 0]
NoWrites == [a \in Addrs |-> -1]

Call(op, key, ret, args) ==
    [op |-> op, key |-> key, ret |-> ret, args |-> args, before |-> table]

\* The callers whose calls can be in progress at one time.
Callers == {1, 2}

\* A caller that is in no call.
Idle == [pc |-> "idle", op |-> "none", key |-> 0,
         list |-> Slot(0), next |-> Slot(0), l |-> 0, i |-> 0]

\* The strategies a caller passes together: the string pair of Example 1 and
\* the pointer pair of Example 2.
Strategies == {<<CmpStr, HashStr>>, <<CmpPtr, HashPtr>>}

Init ==
    /\ table = [hashListArr |-> 0, cmp |-> 0, hash |-> 0, onRemove |-> 0]
    /\ arrs = <<>>
    /\ lists = <<>>
    /\ pairs = <<>>
    /\ last = Call("none", 0, 0, <<0, 0, 0>>)
    /\ events = <<>>
    /\ slotOf = NoSlots
    /\ wrote = NoWrites
    /\ created = <<>>
    /\ thr = [c \in Callers |-> Idle]

InitCall(c, h, r) ==
    /\ Cardinality(Used(Mem)) < MemBlocks
    /\ LET res == HashTable_Init(table, Mem, c, h, r)
       IN /\ table' = res.t
          /\ arrs' = res.m.arrs
          /\ lists' = res.m.lists
          /\ pairs' = res.m.pairs
          /\ events' = res.events
    /\ last' = Call("Init", 0, 0, <<c, h, r>>)
    /\ slotOf' = NoSlots
    /\ wrote' = NoWrites
    /\ created' = <<>>
    /\ UNCHANGED thr

\* HashTable_Init on a table that is not ready: all-zero, or destroyed.
DoInit(c, h, r) ==
    /\ ~HashTable_Ready(table)
    /\ InitCall(c, h, r)

\* HashTable_Init on a ready table, with no HashTable_Destroy before it.
DoReinit(c, h, r) ==
    /\ HashTable_Ready(table)
    /\ InitCall(c, h, r)

DoDestroy ==
    /\ LET res == HashTable_Destroy(table, Mem)
       IN /\ table' = res.t
          /\ arrs' = res.m.arrs
          /\ lists' = res.m.lists
          /\ pairs' = res.m.pairs
          /\ events' = res.events
    /\ last' = Call("Destroy", 0, 0, <<0, 0, 0>>)
    /\ slotOf' = NoSlots
    /\ wrote' = NoWrites
    /\ created' = <<>>
    /\ UNCHANGED thr

\* HashTable_Has done as HashTable_At is: a miss adds the entry.
DoHasInserts(key) ==
    /\ HashTable_Ready(table)
    /\ Cardinality(Used(Mem)) + 2 <= MemBlocks
    /\ LET res == HashTable_At(table, Mem, key)
       IN /\ arrs' = res.m.arrs
          /\ lists' = res.m.lists
          /\ pairs' = res.m.pairs
          /\ last' = Call("Has", key, res.ret, <<0, 0, 0>>)
    /\ events' = <<>>
    /\ UNCHANGED <<table, slotOf, wrote, created, thr>>

DoHas(key) ==
    /\ HashTable_Ready(table)
    /\ last' = Call("Has", key, HashTable_Has(table, Mem, key), <<0, 0, 0>>)
    /\ events' = <<>>
    /\ UNCHANGED <<table, arrs, lists, pairs, slotOf, wrote, created, thr>>

\* The entry a HashTable_At(key) call allocated, from the trace of the call:
\* the node is the first malloc and the pair the second.
Allocated(evs, key) ==
    IF Len(evs) >= 2 /\ evs[1].ev = "malloc" /\ evs[2].ev = "malloc"
    THEN <<[node |-> evs[1].addr, pair |-> evs[2].addr, key |-> key]>>
    ELSE <<>>

\* The heap has room for the node and the pair a miss allocates.
Fits(key) ==
    IF HashTable_Has(table, Mem, key) # 0 THEN TRUE
    ELSE Cardinality(Used(Mem)) + 2 <= MemBlocks

DoAt(key) ==
    /\ HashTable_Ready(table)
    /\ Fits(key)
    /\ LET res == HashTable_At(table, Mem, key)
       IN /\ arrs' = res.m.arrs
          /\ lists' = res.m.lists
          /\ pairs' = res.m.pairs
          /\ events' = res.events
          /\ last' = Call("At", key, res.ret, <<0, 0, 0>>)
          /\ slotOf' = [slotOf EXCEPT ![key] = res.ret]
          /\ created' = created \o Allocated(res.events, key)
    /\ UNCHANGED <<table, wrote, thr>>

\* The caller stores v through the reference the last call returned.
DoWrite(v) ==
    /\ last.op \in {"At", "Has", "Write"}
    /\ last.ret # 0
    /\ pairs' = [pairs EXCEPT ![last.ret].element = v]
    /\ wrote' = [wrote EXCEPT ![last.ret] = v]
    /\ last' = [last EXCEPT !.op = "Write", !.before = table]
    /\ events' = <<>>
    /\ UNCHANGED <<table, arrs, lists, slotOf, created, thr>>

\* The calls of a caller that keeps to the lifecycle: Init, then lookups and
\* insertions, then Destroy, then Init again.
Next ==
    \/ \E s \in Strategies, r \in {0, OnRemoveLog} : DoInit(s[1], s[2], r)
    \/ DoDestroy
    \/ \E key \in Keys : DoHas(key)
    \/ \E key \in Keys : DoAt(key)
    \/ \E v \in Vals : DoWrite(v)

Spec == Init /\ [][Next]_vars

\* The same calls without the element writes, and with HashTable_Init also
\* called on a ready table.
NextReinit ==
    \/ \E s \in Strategies, r \in {0, OnRemoveLog} : DoInit(s[1], s[2], r)
    \/ \E s \in Strategies, r \in {0, OnRemoveLog} : DoReinit(s[1], s[2], r)
    \/ DoDestroy
    \/ \E key \in Keys : DoHas(key)
    \/ \E key \in Keys : DoAt(key)

SpecReinit == Init /\ [][NextReinit]_vars

\* The strategies of a caller who may also pass a cmp and a hash that do not
\* agree: strcmp with the pointer hash, under which keys 1 and 2 are equal
\* and select different buckets.
MixedStrategies == Strategies \cup {<<CmpStr, HashPtr>>}

NextMixed ==
    \/ \E s \in MixedStrategies, r \in {0, OnRemoveLog} : DoInit(s[1], s[2], r)
    \/ DoDestroy
    \/ \E key \in Keys : DoHas(key)
    \/ \E key \in Keys : DoAt(key)

SpecMixed == Init /\ [][NextMixed]_vars

\* ------------------------------------------- calls, statement by statement

\* The pair a link refers to through its node: (*list)->pair.
PairAt(loc) == lists[Load(table, Mem, loc)].pair

Goto(c, pc) == thr' = [thr EXCEPT ![c].pc = pc]

Return(c, op, ret) ==
    /\ thr' = [thr EXCEPT ![c] = Idle]
    /\ last' = Call(op, thr[c].key, ret, <<0, 0, 0>>)

\* HashTable_At, lines 70-72: idx = hash(key); list = 0; next = &arr[idx % HASHSIZE].
AtEnter(c, key) ==
    /\ thr[c].pc = "idle"
    /\ HashTable_Ready(table)
    /\ Fits(key)
    /\ thr' = [thr EXCEPT ![c] = [Idle EXCEPT !.pc = "test", !.op = "At", !.key = key,
                                     !.next = Slot(Index(hash(table.hash, key)))]]
    /\ events' = <<>>
    /\ UNCHANGED <<table, arrs, lists, pairs, last, slotOf, wrote, created>>

\* Lines 74-75: list = next; if(!(*list)).
AtTest(c) ==
    /\ thr[c].pc = "test"
    /\ thr' = [thr EXCEPT ![c].list = thr[c].next,
                          ![c].pc = IF Load(table, Mem, thr[c].next) = 0
                                    THEN "alloc" ELSE "advance"]
    /\ UNCHANGED <<table, arrs, lists, pairs, last, events, slotOf, wrote, created>>

\* Line 76: l = malloc(sizeof(struct HashList)). malloc returns NULL when no
\* block is left. The fields of the new node are not yet written.
AtAllocNode(c) ==
    /\ thr[c].pc = "alloc"
    /\ IF Cardinality(Used(Mem)) < MemBlocks
       THEN LET l == Malloc(Mem)
            IN /\ lists' = (l :> [next |-> 0, pair |-> 0]) @@ lists
               /\ thr' = [thr EXCEPT ![c].l = l, ![c].pc = "pair"]
               /\ events' = Append(events, Event("malloc", l, 0, 0))
       ELSE /\ thr' = [thr EXCEPT ![c].l = 0, ![c].pc = "pair"]
            /\ UNCHANGED <<lists, events>>
    /\ UNCHANGED <<table, arrs, pairs, last, slotOf, wrote, created>>

\* Lines 77-81: p = malloc(sizeof(struct HashPair)) and the stores to the two
\* new blocks, which no other caller can reach yet: p->key = key;
\* p->element = 0; l->next = 0; l->pair = p. The store through a NULL p
\* (line 78) or a NULL l (line 80) faults, and the call never returns; the
\* blocks malloc did return stay allocated.
AtAllocPair(c) ==
    /\ thr[c].pc = "pair"
    /\ LET l == thr[c].l
           p == IF Cardinality(Used(Mem)) < MemBlocks THEN Malloc(Mem) ELSE 0
       IN /\ pairs' = IF p # 0 THEN (p :> [key |-> thr[c].key, element |-> 0]) @@ pairs
                      ELSE pairs
          /\ events' = IF p # 0 THEN Append(events, Event("malloc", p, 0, 0)) ELSE events
          /\ IF p # 0 /\ l # 0
             THEN /\ lists' = [lists EXCEPT ![l] = [next |-> 0, pair |-> p]]
                  /\ created' = Append(created, [node |-> l, pair |-> p, key |-> thr[c].key])
                  /\ Goto(c, "link")
             ELSE /\ Goto(c, "fault")
                  /\ UNCHANGED <<lists, created>>
    /\ UNCHANGED <<table, arrs, last, slotOf, wrote>>

\* Line 82 storing to the slot of the key's bucket: list = &arr[idx % HASHSIZE];
\* *list = l.
AtLinkAtHead(c) ==
    /\ thr[c].pc = "link"
    /\ LET head == Slot(Index(hash(table.hash, thr[c].key)))
           m == Store(table, Mem, head, thr[c].l)
       IN /\ arrs' = m.arrs
          /\ lists' = m.lists
          /\ thr' = [thr EXCEPT ![c].list = head, ![c].pc = "advance"]
    /\ UNCHANGED <<table, pairs, last, events, slotOf, wrote, created>>

\* Line 82: *list = l.
AtLink(c) ==
    /\ thr[c].pc = "link"
    /\ LET m == Store(table, Mem, thr[c].list, thr[c].l)
       IN /\ arrs' = m.arrs
          /\ lists' = m.lists
    /\ Goto(c, "advance")
    /\ UNCHANGED <<table, pairs, last, events, slotOf, wrote, created>>

\* Line 84: next = &((*list)->next).
AtAdvance(c) ==
    /\ thr[c].pc = "advance"
    /\ thr' = [thr EXCEPT ![c].next = NextOf(Load(table, Mem, thr[c].list)),
                          ![c].pc = "cmp"]
    /\ UNCHANGED <<table, arrs, lists, pairs, last, events, slotOf, wrote, created>>

\* Line 85 with the loop condition negated: while(!cmp(...)).
AtCmpInverted(c) ==
    /\ thr[c].pc = "cmp"
    /\ Goto(c, IF cmp(table.cmp, thr[c].key, pairs[PairAt(thr[c].list)].key) = 0
               THEN "test" ELSE "return")
    /\ UNCHANGED <<table, arrs, lists, pairs, last, events, slotOf, wrote, created>>

\* Line 85: while(cmp(key, (*list)->pair->key)).
AtCmp(c) ==
    /\ thr[c].pc = "cmp"
    /\ Goto(c, IF cmp(table.cmp, thr[c].key, pairs[PairAt(thr[c].list)].key) # 0
               THEN "test" ELSE "return")
    /\ UNCHANGED <<table, arrs, lists, pairs, last, events, slotOf, wrote, created>>

\* Line 86: return &((*list)->pair->element).
AtReturn(c) ==
    /\ thr[c].pc = "return"
    /\ Return(c, "At", PairAt(thr[c].list))
    /\ slotOf' = [slotOf EXCEPT ![thr[c].key] = PairAt(thr[c].list)]
    /\ UNCHANGED <<table, arrs, lists, pairs, events, wrote, created>>

\* HashTable_Has, lines 61-62: idx = hash(key); list = &arr[idx % HASHSIZE].
HasEnter(c, key) ==
    /\ thr[c].pc = "idle"
    /\ HashTable_Ready(table)
    /\ thr' = [thr EXCEPT ![c] = [Idle EXCEPT !.pc = "walk", !.op = "Has", !.key = key,
                                     !.list = Slot(Index(hash(table.hash, key)))]]
    /\ events' = <<>>
    /\ UNCHANGED <<table, arrs, lists, pairs, last, slotOf, wrote, created>>

\* Lines 63-65: one test of the while condition, and the body when it holds.
HasWalk(c) ==
    /\ thr[c].pc = "walk"
    /\ IF /\ Load(table, Mem, thr[c].list) # 0
          /\ cmp(table.cmp, thr[c].key, pairs[PairAt(thr[c].list)].key) # 0
       THEN thr' = [thr EXCEPT ![c].list = NextOf(Load(table, Mem, thr[c].list))]
       ELSE Goto(c, "found")
    /\ UNCHANGED <<table, arrs, lists, pairs, last, events, slotOf, wrote, created>>

\* Line 66: return (list && *list) ? &(*list)->pair->element : 0.
HasReturn(c) ==
    /\ thr[c].pc = "found"
    /\ Return(c, "Has", IF Load(table, Mem, thr[c].list) # 0
                        THEN PairAt(thr[c].list) ELSE 0)
    /\ UNCHANGED <<table, arrs, lists, pairs, events, slotOf, wrote, created>>

\* HashTable_Destroy, line 41: the readiness test; a table that is not ready
\* makes the call return at once.
DestroyEnter(c) ==
    /\ thr[c].pc = "idle"
    /\ IF HashTable_Ready(table)
       THEN /\ thr' = [thr EXCEPT ![c] = [Idle EXCEPT !.pc = "bucket", !.op = "Destroy"]]
            /\ UNCHANGED <<last, slotOf, wrote, created>>
       ELSE /\ Return(c, "Destroy", 0)
            /\ slotOf' = NoSlots
            /\ wrote' = NoWrites
            /\ created' = <<>>
    /\ events' = <<>>
    /\ UNCHANGED <<table, arrs, lists, pairs>>

\* Lines 42-43: the for loop up to the next bucket that holds a chain, and
\* l = hashListArr[i] there; or its end at i = HASHSIZE.
DestroyBucket(c) ==
    /\ thr[c].pc = "bucket"
    /\ LET arr == arrs[table.hashListArr]
           rest == {j \in thr[c].i..(HASHSIZE - 1) : arr[j] # 0}
       IN IF rest # {}
          THEN LET j == CHOOSE x \in rest : \A y \in rest : x <= y
               IN /\ thr' = [thr EXCEPT ![c].i = j, ![c].l = arr[j], ![c].pc = "node"]
                  /\ events' = Append(events, Event("read", table.hashListArr, 0, 0))
          ELSE /\ thr' = [thr EXCEPT ![c].i = HASHSIZE, ![c].pc = "finish"]
               /\ UNCHANGED events
    /\ UNCHANGED <<table, arrs, lists, pairs, last, slotOf, wrote, created>>

\* Lines 44-52: one test of while(l) and its body (next = l->next; the
\* onRemove call when the table has an onRemove; free(l->pair); free(l);
\* l = next), or the i++ of the for loop.
DestroyNode(c) ==
    /\ thr[c].pc = "node"
    /\ IF thr[c].l # 0
       THEN LET l == thr[c].l
                next == lists[l].next
                p == lists[l].pair
                called == IF table.onRemove # 0
                          THEN <<Event("read", l, 0, 0),
                                 Event("onRemove", p, pairs[p].key, pairs[p].element)>>
                          ELSE <<>>
            IN /\ pairs' = Free(pairs, p)
               /\ lists' = Free(lists, l)
               /\ thr' = [thr EXCEPT ![c].l = next]
               /\ events' = events \o <<Event("read", l, 0, 0)>> \o called
                                   \o <<Event("read", l, 0, 0), Event("free", p, 0, 0),
                                        Event("free", l, 0, 0)>>
       ELSE /\ thr' = [thr EXCEPT ![c].i = thr[c].i + 1, ![c].pc = "bucket"]
            /\ UNCHANGED <<lists, pairs, events>>
    /\ UNCHANGED <<table, arrs, last, slotOf, wrote, created>>

\* Lines 54-55: free(hashListArr); hash = 0.
DestroyFinish(c) ==
    /\ thr[c].pc = "finish"
    /\ arrs' = Free(arrs, table.hashListArr)
    /\ table' = [table EXCEPT !.hash = 0]
    /\ Return(c, "Destroy", 0)
    /\ events' = events \o <<Event("free", table.hashListArr, 0, 0),
                             Event("unready", 0, 0, 0)>>
    /\ slotOf' = NoSlots
    /\ wrote' = NoWrites
    /\ created' = <<>>
    /\ UNCHANGED <<lists, pairs>>

\* The statement a caller in a call executes next.
Step(c) ==
    \/ AtTest(c) \/ AtAllocNode(c) \/ AtAllocPair(c) \/ AtLink(c) \/ AtAdvance(c) \/ AtCmp(c) \/ AtReturn(c)
    \/ HasWalk(c) \/ HasReturn(c)
    \/ DestroyBucket(c) \/ DestroyNode(c) \/ DestroyFinish(c)

AllIdle == \A c \in Callers : thr[c].pc = "idle"

\* The strategies of the statement-by-statement runs: the pointer pair of
\* Example 2, and the pointer hash with a cmp that is not reflexive.
LoopStrategies == {<<CmpPtr, HashPtr>>, <<CmpNe, HashPtr>>}

EnterInit(c, h, r) == AllIdle /\ DoInit(c, h, r)

\* One caller, one call at a time, run statement by statement.
NextLoop ==
    \/ \E s \in LoopStrategies, r \in {0, OnRemoveLog} : EnterInit(s[1], s[2], r)
    \/ \E key \in Keys : AtEnter(1, key)
    \/ \E key \in Keys : HasEnter(1, key)
    \/ DestroyEnter(1)
    \/ AtTest(1)
    \/ AtAllocNode(1)
    \/ AtAllocPair(1)
    \/ AtLink(1)
    \/ AtAdvance(1)
    \/ AtCmp(1)
    \/ AtReturn(1)
    \/ HasWalk(1)
    \/ HasReturn(1)
    \/ DestroyBucket(1)
    \/ DestroyNode(1)
    \/ DestroyFinish(1)

\* A call that was entered goes on executing.
SpecLoop == Init /\ [][NextLoop]_vars /\ WF_vars(Step(1))

\* The keys of the bucket of key 1.
SameBucket(key) == Index(hash(table.hash, key)) = Index(hash(table.hash, 1))

\* A HashTable_At call made while no other call is in progress, before the
\* two calls that overlap.
RaceSetup(key) == AllIdle /\ SameBucket(key) /\ DoAt(key)

\* One of the two overlapping HashTable_At calls is entered.
RaceEnter(c, key) == SameBucket(key) /\ AtEnter(c, key)

\* Line 86, for a caller that makes no call after this one.
RaceReturn(c) ==
    /\ thr[c].pc = "return"
    /\ thr' = [thr EXCEPT ![c] = [Idle EXCEPT !.pc = "done"]]
    /\ last' = Call("At", thr[c].key, PairAt(thr[c].list), <<0, 0, 0>>)
    /\ slotOf' = [slotOf EXCEPT ![thr[c].key] = PairAt(thr[c].list)]
    /\ UNCHANGED <<table, arrs, lists, pairs, events, wrote, created>>

\* Two callers, each running one HashTable_At statement by statement, with
\* no mutual exclusion between them.
NextRace ==
    \/ \E s \in Strategies : EnterInit(s[1], s[2], 0)
    \/ \E key \in Keys : RaceSetup(key)
    \/ \E c \in Callers, key \in Keys : RaceEnter(c, key)
    \/ \E c \in Callers : AtTest(c)
    \/ \E c \in Callers : AtAllocNode(c)
    \/ \E c \in Callers : AtAllocPair(c)
    \/ \E c \in Callers : AtLink(c)
    \/ \E c \in Callers : AtAdvance(c)
    \/ \E c \in Callers : AtCmp(c)
    \/ \E c \in Callers : RaceReturn(c)

SpecRace == Init /\ [][NextRace]_vars

\* ------------------------------------------------------- reading the table

RECURSIVE ChainFrom(_, _)
\* The nodes of a chain from node l on, in link order.
ChainFrom(m, l) == IF l = 0 THEN <<>> ELSE <<l>> \o ChainFrom(m, m.lists[l].next)

\* The entries (HashPair addresses) of bucket i, in chain order.
Chain(t, m, i) ==
    IF t.hashListArr \in DOMAIN m.arrs
    THEN LET nodes == ChainFrom(m, m.arrs[t.hashListArr][i])
         IN [j \in DOMAIN nodes |-> m.lists[nodes[j]].pair]
    ELSE <<>>

Range(f) == {f[x] : x \in DOMAIN f}

\* The buckets of the table that hold a chain.
Buckets(t, m) ==
    IF t.hashListArr \in DOMAIN m.arrs
    THEN {i \in 0..(HASHSIZE - 1) : m.arrs[t.hashListArr][i] # 0}
    ELSE {}

\* The entries of the table.
TableEntries(t, m) == UNION {Range(Chain(t, m, i)) : i \in Buckets(t, m)}

Entries == TableEntries(table, Mem)

IsPrefix(s, u) == Len(s) <= Len(u) /\ \A j \in DOMAIN s : s[j] = u[j]

\* The keys HashTable_At has been called with since the table became ready.
UsedKeys == {k \in Keys : slotOf[k] # 0}

\* The classes of the keys of S that the table's cmp finds equal.
KeyClasses(S) == {{b \in S : cmp(table.cmp, a, b) = 0} : a \in S}

\* The table was destroyed before the call just made.
WasDestroyed == last.before.hash = 0 /\ last.before.hashListArr # 0

\* The blocks the table refers to: its bucket array, the nodes of its chains
\* and their pairs.
Reach(t, m) ==
    IF t.hashListArr \in DOMAIN m.arrs
    THEN LET nodes == UNION {Range(ChainFrom(m, m.arrs[t.hashListArr][i])) :
                                i \in Buckets(t, m)}
         IN {t.hashListArr} \cup nodes \cup {m.lists[n].pair : n \in nodes}
    ELSE {}

\* The blocks of the heap the table does not refer to.
Garbage == Used(Mem) \ Reach(table, Mem)

\* The entries a caller has allocated and not yet linked.
Held == {lists[thr[c].l].pair : c \in {d \in Callers : thr[d].pc = "link"}}

\* The entries in the heap that are in no chain of the table and that no
\* caller is about to link.
Lost == DOMAIN pairs \ (Entries \cup Held)

IsOnRemove(e) == e.ev = "onRemove"

IsFree(e) == e.ev = "free"

\* -------------------------------------------------------------- properties

\* C1: on a ready table the entries are as many as the distinct keys
\* HashTable_At was called with, distinct by cmp, and no two entries hold
\* keys that cmp finds equal.
C1_Uniqueness ==
    HashTable_Ready(table) =>
        /\ \A p, q \in Entries :
              p # q => cmp(table.cmp, pairs[p].key, pairs[q].key) # 0
        /\ Cardinality(Entries) = Cardinality(KeyClasses(UsedKeys))

\* Two different key references that cmp finds equal were both used, next to
\* a third key of the same bucket.
C1_Witness ==
    /\ HashTable_Ready(table)
    /\ \E a, b \in UsedKeys : a # b /\ cmp(table.cmp, a, b) = 0
    /\ Cardinality(Entries) = 2
    /\ Cardinality(UsedKeys) = 3

\* C2: a HashTable_At(k) or HashTable_Has(k) made after a value was written
\* through the reference HashTable_At returned for k gives a reference
\* through which that value is read.
C2_ValueStability ==
    (/\ last.op \in {"At", "Has"}
     /\ slotOf[last.key] # 0
     /\ wrote[slotOf[last.key]] # -1)
    => /\ last.ret \in DOMAIN pairs
       /\ pairs[last.ret].element = wrote[slotOf[last.key]]

\* A written value is read back through HashTable_Has while the table holds
\* another entry as well.
C2_Witness ==
    /\ last.op = "Has"
    /\ slotOf[last.key] # 0
    /\ wrote[slotOf[last.key]] = MaxVal
    /\ Cardinality(Entries) >= 2
    /\ last.ret \in DOMAIN pairs
    /\ pairs[last.ret].element = MaxVal

\* C3: HashTable_Has(k) returns a reference exactly when HashTable_At has
\* created an entry for a key equal to k since the table became ready, and
\* the reference is that entry's element slot.
C3_HasFindsInserted ==
    last.op = "Has" =>
        LET equal == {k \in UsedKeys : cmp(table.cmp, last.key, k) = 0}
        IN /\ (last.ret # 0) = (equal # {})
           /\ \A k \in equal :
                 /\ last.ret = slotOf[k]
                 /\ last.ret \in Entries
                 /\ cmp(table.cmp, last.key, pairs[last.ret].key) = 0

\* HashTable_Has finds an entry through a key reference other than the one
\* stored, behind another entry of the chain.
C3_Witness ==
    /\ last.op = "Has"
    /\ last.ret # 0
    /\ pairs[last.ret].key # last.key
    /\ \E i \in 0..(HASHSIZE - 1) :
          Len(Chain(table, Mem, i)) = 2 /\ Chain(table, Mem, i)[2] = last.ret

\* C4: a HashTable_Has call leaves the table, the bucket array, the chain
\* nodes and the entries as they were.
C4_HasIsPure ==
    [][last'.op = "Has" => UNCHANGED <<table, arrs, lists, pairs>>]_vars

\* HashTable_Has missed in a chain that holds an entry.
C4_Witness ==
    /\ last.op = "Has"
    /\ last.ret = 0
    /\ Len(Chain(table, Mem, Index(hash(table.hash, last.key)))) >= 1

\* C5: HashTable_At(k) on a table with no entry equal to k adds exactly one
\* entry, with key k and a null element, and every entry there was keeps its
\* key, its element and its place in its chain.
C5_InsertEffect ==
    [][(/\ last'.op = "At"
        /\ \A e \in Entries : cmp(table.cmp, last'.key, pairs[e].key) # 0)
       => /\ Cardinality(Entries') = Cardinality(Entries) + 1
          /\ last'.ret \in Entries' \ Entries
          /\ pairs'[last'.ret] = [key |-> last'.key, element |-> 0]
          /\ \A e \in Entries : e \in DOMAIN pairs' /\ pairs'[e] = pairs[e]
          /\ \A i \in Buckets(table, Mem) :
                IsPrefix(Chain(table, Mem, i), Chain(table, Mem, i)')]_vars

\* HashTable_At has just added an entry behind another one whose element
\* had been written.
C5_Witness ==
    /\ last.op = "At"
    /\ events # <<>>
    /\ pairs[last.ret].element = 0
    /\ \E i \in 0..(HASHSIZE - 1) :
          /\ Len(Chain(table, Mem, i)) = 2
          /\ Chain(table, Mem, i)[2] = last.ret
          /\ pairs[Chain(table, Mem, i)[1]].element # 0

\* C6: HashTable_Destroy on a ready table with an onRemove calls onRemove
\* once for every entry of the table, with that entry's pair, key and
\* element, and for nothing else.
C6_TeardownComplete ==
    [][(/\ last'.op = "Destroy"
        /\ HashTable_Ready(table)
        /\ table.onRemove # 0)
       => LET calls == SelectSeq(events', IsOnRemove)
          IN /\ \A p \in Entries :
                   /\ Cardinality({j \in DOMAIN calls : calls[j].addr = p}) = 1
                   /\ \A j \in DOMAIN calls :
                         calls[j].addr = p =>
                            /\ calls[j].key = pairs[p].key
                            /\ calls[j].element = pairs[p].element
             /\ \A j \in DOMAIN calls : calls[j].addr \in Entries]_vars

\* HashTable_Destroy has called onRemove for three entries, one of them with
\* a written element.
C6_Witness ==
    /\ last.op = "Destroy"
    /\ Len(SelectSeq(events, IsOnRemove)) = 3
    /\ \E j \in DOMAIN events : IsOnRemove(events[j]) /\ events[j].element # 0

\* C7: HashTable_Ready is true exactly when HashTable_Init was called and
\* HashTable_Destroy was not called since: false on the all-zero table, true
\* after every Init, At and Has, false after Destroy.
C7_ReadyTracksLifecycle ==
    HashTable_Ready(table) = (last.op \notin {"none", "Destroy"})

\* HashTable_Init has made a destroyed table ready again.
C7_Witness ==
    /\ last.op = "Init"
    /\ WasDestroyed
    /\ HashTable_Ready(table)

\* C8: HashTable_Destroy on a table that is not ready calls no onRemove,
\* frees nothing and changes no field of the table.
C8_DestroyNotReadyNoop ==
    [][(last'.op = "Destroy" /\ ~HashTable_Ready(table))
       => /\ events' = <<>>
          /\ UNCHANGED <<table, arrs, lists, pairs>>]_vars

\* HashTable_Destroy was called on a table already destroyed.
C8_Witness ==
    /\ last.op = "Destroy"
    /\ WasDestroyed
    /\ events = <<>>

\* C9: HashTable_Init after HashTable_Destroy gives a ready table that holds
\* the strategies of this Init and a newly allocated bucket array of
\* HASHSIZE empty slots, with no entry, and HashTable_Has finds no key.
C9_ReinitIsFresh ==
    (last.op = "Init" /\ WasDestroyed) =>
        /\ HashTable_Ready(table)
        /\ <<table.cmp, table.hash, table.onRemove>> = last.args
        /\ events = <<Event("calloc", table.hashListArr, 0, 0)>>
        /\ table.hashListArr \in DOMAIN arrs
        /\ arrs[table.hashListArr] = ZeroArr
        /\ Entries = {}
        /\ \A k \in Keys : HashTable_Has(table, Mem, k) = 0

\* HashTable_Init was called on a destroyed table with strategies other than
\* the ones the table held before.
C9_Witness ==
    /\ last.op = "Init"
    /\ WasDestroyed
    /\ last.before.cmp # table.cmp
    /\ last.before.onRemove # table.onRemove

\* C10: while the table is ready, HashTable_At(k) and HashTable_Has(k)
\* return the reference HashTable_At returned for k before, and every
\* reference returned stays an entry of the table with the same key.
C10_ReferenceStable ==
    [][last'.op \in {"At", "Has", "Write"}
       => /\ (last'.op \in {"At", "Has"} /\ slotOf[last'.key] # 0)
                => last'.ret = slotOf[last'.key]
          /\ {slotOf[k] : k \in UsedKeys} \subseteq Entries'
          /\ \A k \in UsedKeys : pairs'[slotOf[k]].key = pairs[slotOf[k]].key]_vars

\* HashTable_At returned for a key the reference it had returned before,
\* after an entry for another key was added behind it in the chain.
C10_Witness ==
    /\ last.op = "At"
    /\ events = <<>>
    /\ \E i \in 0..(HASHSIZE - 1) :
          /\ Len(Chain(table, Mem, i)) = 2
          /\ Chain(table, Mem, i)[1] = last.ret

\* C11: HashTable_Destroy calls onRemove for the entries bucket by bucket in
\* ascending bucket index, and for the entries of one bucket in the order
\* HashTable_At created them.
C11_RemoveOrder ==
    [][(/\ last'.op = "Destroy"
        /\ HashTable_Ready(table)
        /\ table.onRemove # 0)
       => LET calls == SelectSeq(events', IsOnRemove)
              BucketOf(p) == CHOOSE i \in Buckets(table, Mem) :
                                p \in Range(Chain(table, Mem, i))
              Birth(p) == CHOOSE j \in DOMAIN created : created[j].pair = p
          IN \A j, k \in DOMAIN calls :
                j < k =>
                   \/ BucketOf(calls[j].addr) < BucketOf(calls[k].addr)
                   \/ /\ BucketOf(calls[j].addr) = BucketOf(calls[k].addr)
                      /\ Birth(calls[j].addr) < Birth(calls[k].addr)]_vars

\* HashTable_Destroy has called onRemove for the two entries of bucket 1, the
\* one with the greater key created first, and then for the entry of bucket 2.
C11_Witness ==
    /\ last.op = "Destroy"
    /\ LET calls == SelectSeq(events, IsOnRemove)
       IN /\ Len(calls) = 3
          /\ calls[1].key = HASHSIZE + 1
          /\ calls[2].key = 1
          /\ calls[3].key = 2

\* C12: a HashTable_At call with a key that cmp finds equal to itself, and
\* every HashTable_Has and HashTable_Destroy call, returns.
C12_Terminates ==
    (/\ thr[1].pc # "idle"
     /\ thr[1].op = "At" => cmp(table.cmp, thr[1].key, thr[1].key) = 0)
    ~> (thr[1].pc = "idle")

\* C12 as stated, for every cmp: every call that was entered returns.
C12_EveryCallReturns == (thr[1].pc # "idle") ~> (thr[1].pc = "idle")

\* A HashTable_At run statement by statement has returned the entry it added
\* behind another one, under a cmp that some keys fail against themselves.
C12_Witness ==
    /\ thr[1].pc = "idle"
    /\ last.op = "At"
    /\ table.cmp = CmpNe
    /\ \E i \in 0..(HASHSIZE - 1) :
          /\ Len(Chain(table, Mem, i)) = 2
          /\ Chain(table, Mem, i)[2] = last.ret

\* C13: HashTable_Destroy on a ready table frees every node and every pair
\* HashTable_At allocated since the last HashTable_Init exactly once, frees
\* the bucket array exactly once and frees nothing else, so that no block
\* stays in the heap; without an onRemove it calls no callback.
C13_FreesAllOnce ==
    [][(last'.op = "Destroy" /\ HashTable_Ready(table))
       => LET frees == SelectSeq(events', IsFree)
              Freed(a) == Cardinality({j \in DOMAIN frees : frees[j].addr = a})
          IN /\ \A j \in DOMAIN created :
                   /\ Freed(created[j].node) = 1
                   /\ Freed(created[j].pair) = 1
             /\ Freed(table.hashListArr) = 1
             /\ Len(frees) = 2 * Len(created) + 1
             /\ Used(Mem') = {}
             /\ table.onRemove = 0 => SelectSeq(events', IsOnRemove) = <<>>]_vars

\* HashTable_Destroy has freed three entries and the bucket array of a table
\* without an onRemove.
C13_Witness ==
    /\ last.op = "Destroy"
    /\ last.before.onRemove = 0
    /\ Len(SelectSeq(events, IsFree)) = 7
    /\ SelectSeq(events, IsOnRemove) = <<>>

\* C14: while the table is ready its bucket array has HASHSIZE slots, every
\* entry is in the chain of the bucket whose index is the hashcode of its
\* key modulo HASHSIZE, the hashcode taken as an unsigned 32-bit number, and
\* the index HashTable_At and HashTable_Has compute for a key is that number,
\* within 0..HASHSIZE-1.
C14_BucketPlacement ==
    HashTable_Ready(table) =>
        LET Bucket(key) ==
                LET u == hash(table.hash, key)
                IN (u.hi * (Half % HASHSIZE) + u.lo) % HASHSIZE
        IN /\ DOMAIN arrs[table.hashListArr] = 0..(HASHSIZE - 1)
           /\ \A i \in Buckets(table, Mem) :
                 \A p \in Range(Chain(table, Mem, i)) : i = Bucket(pairs[p].key)
           /\ \A key \in Keys :
                 /\ Index(hash(table.hash, key)) \in 0..(HASHSIZE - 1)
                 /\ Index(hash(table.hash, key)) = Bucket(key)
           /\ (last.op \in {"At", "Has"} /\ last.ret # 0)
                 => last.ret \in Range(Chain(table, Mem, Bucket(last.key)))

\* HashTable_At has added behind another entry the entry of a key whose
\* hashcode is above 2^31.
C14_Witness ==
    /\ HashTable_Ready(table)
    /\ last.op = "At"
    /\ last.ret # 0
    /\ hash(table.hash, last.key).hi >= Half \div 2
    /\ \E i \in 0..(HASHSIZE - 1) :
          /\ Len(Chain(table, Mem, i)) = 2
          /\ Chain(table, Mem, i)[2] = last.ret

\* C15: a HashTable_At that finds no equal key appends its new entry at the
\* tail of the chain of the key's bucket and leaves every chain otherwise as
\* it was, so that keys of one bucket that cmp finds unequal have separate
\* entries in that chain, in the order of their creation; and a write
\* through the reference of one entry changes no other entry.
C15_Chaining ==
    [][/\ (/\ last'.op = "At"
           /\ \A e \in Entries : cmp(table.cmp, last'.key, pairs[e].key) # 0)
          => LET i == Index(hash(table.hash, last'.key))
             IN /\ Chain(table', Mem', i) = Append(Chain(table, Mem, i), last'.ret)
                /\ \A j \in Buckets(table, Mem) \ {i} :
                      Chain(table, Mem, j)' = Chain(table, Mem, j)
       /\ last'.op = "At"
          => \A a, b \in UsedKeys' :
                cmp(table.cmp, a, b) # 0
                => /\ slotOf'[a] # slotOf'[b]
                   /\ {slotOf'[a], slotOf'[b]} \subseteq Entries'
       /\ last'.op = "Write"
          => /\ DOMAIN pairs' = DOMAIN pairs
             /\ \A p \in DOMAIN pairs \ {last.ret} : pairs'[p] = pairs[p]]_vars

\* A value was written through the second entry of a chain whose first entry
\* holds another written value.
C15_Witness ==
    /\ last.op = "Write"
    /\ \E i \in 0..(HASHSIZE - 1) :
          /\ Len(Chain(table, Mem, i)) = 2
          /\ Chain(table, Mem, i)[2] = last.ret
          /\ wrote[Chain(table, Mem, i)[1]] # -1
          /\ pairs[Chain(table, Mem, i)[1]].element # pairs[last.ret].element

\* C16: a HashTable_Init on a ready table leaves the bucket array, the nodes
\* and the pairs the table referred to in the heap, with no reference to them
\* from the table; a block in that condition stays so for ever, and no later
\* call, HashTable_Destroy included, frees it or passes it to onRemove.
C16_ReinitLeaks ==
    [][/\ (last'.op = "Init" /\ HashTable_Ready(table))
          => /\ Reach(table, Mem) # {}
             /\ Reach(table, Mem) \subseteq Used(Mem') \ Reach(table', Mem')
             /\ events' = <<Event("calloc", table'.hashListArr, 0, 0)>>
       /\ Garbage \subseteq Used(Mem') \ Reach(table', Mem')
       /\ \A j \in DOMAIN events' : events'[j].addr \notin Garbage]_vars

\* HashTable_Destroy has called onRemove for the entries of a table while an
\* entry of the table as it was before a second HashTable_Init is still in
\* the heap.
C16_Witness ==
    /\ last.op = "Destroy"
    /\ Garbage \cap DOMAIN pairs # {}
    /\ SelectSeq(events, IsOnRemove) # <<>>

\* C17: in a HashTable_Destroy on a ready table no block is read or passed
\* to onRemove after its free; for every entry the onRemove call, when there
\* is an onRemove, comes before the free of the pair, the free of the pair
\* before the free of the node, and a read of the node before its free; and
\* the free of the bucket array and the clearing of hash come last.
C17_ReleaseBeforeFree ==
    [][(last'.op = "Destroy" /\ HashTable_Ready(table))
       => LET ev == events'
              n == Len(ev)
              At(kind, a) == {j \in 1..n : ev[j].ev = kind /\ ev[j].addr = a}
              Before(S, T) == \A j \in S, k \in T : j < k
          IN /\ \A j \in 1..n :
                   ev[j].ev \in {"read", "onRemove"}
                   => Before({j}, At("free", ev[j].addr))
             /\ \A c \in Range(created) :
                   /\ At("free", c.pair) # {}
                   /\ At("free", c.node) # {}
                   /\ At("read", c.node) # {}
                   /\ table.onRemove # 0 => At("onRemove", c.pair) # {}
                   /\ Before(At("onRemove", c.pair), At("free", c.pair))
                   /\ Before(At("free", c.pair), At("free", c.node))
                   /\ Before(At("read", c.node), At("free", c.node))
                   /\ Before(At("free", c.node), {n - 1})
             /\ n >= 2
             /\ ev[n - 1] = Event("free", table.hashListArr, 0, 0)
             /\ ev[n] = Event("unready", 0, 0, 0)
             /\ ~HashTable_Ready(table')]_vars

\* HashTable_Destroy has called onRemove for the two entries of one chain,
\* each before its frees.
C17_Witness ==
    /\ last.op = "Destroy"
    /\ Len(SelectSeq(events, IsOnRemove)) = 2
    /\ Len(SelectSeq(events, IsFree)) = 5
    /\ Cardinality({j \in DOMAIN events : events[j].addr = last.before.hashListArr}) = 2

\* C18: with two HashTable_At calls interleaved statement by statement, an
\* entry that is lost stays lost, and an entry gets lost only by a *list = l
\* whose link is no longer as the caller saw it at if(!(*list)): the link
\* holds a node by now, whose chain the store cuts off, or the link is in a
\* node that was cut off; and two entries whose keys cmp finds equal are never
\* both in the table.
C18_LossOnlyByRace ==
    [][/\ Lost \subseteq Lost'
       /\ Lost' # Lost
          => \E c \in Callers :
                /\ thr[c].pc = "link"
                /\ thr'[c].pc = "advance"
                /\ \/ Load(table, Mem, thr[c].list) # 0
                   \/ /\ thr[c].list.node # 0
                      /\ lists[thr[c].list.node].pair \in Lost
       /\ \A p, q \in Entries' :
             p # q => cmp(table'.cmp, pairs'[p].key, pairs'[q].key) # 0]_vars

\* Both callers have returned from HashTable_At calls made with the same
\* key, which was absent: two entries hold the key, one of them in no chain.
C18_Witness ==
    /\ \A c \in Callers : thr[c].pc = "done"
    /\ last.op = "At"
    /\ Cardinality(DOMAIN pairs) = 2
    /\ \E p \in Lost, q \in Entries : pairs[p].key = pairs[q].key

\* C19: HashTable_Has and HashTable_At compare the key with the entries of
\* the bucket the key's hashcode selects and with no other: HashTable_Has
\* returns null when that chain holds no equal key, and HashTable_At then
\* adds an entry, whatever the other chains hold; a reference returned is an
\* entry of that chain with an equal key.
C19_LookupInOneBucket ==
    [][last'.op \in {"At", "Has"}
       => LET i == Index(hash(table.hash, last'.key))
              Same(t, m, ps) == {p \in Range(Chain(t, m, i)) :
                                    cmp(table.cmp, last'.key, ps[p].key) = 0}
          IN /\ last'.op = "Has" => (last'.ret = 0) = (Same(table, Mem, pairs) = {})
             /\ last'.ret # 0 => last'.ret \in Same(table', Mem', pairs')
             /\ (last'.op = "At" /\ Same(table, Mem, pairs) = {})
                   => /\ last'.ret \notin DOMAIN pairs
                      /\ Entries' = Entries \cup {last'.ret}]_vars

\* HashTable_At has added an entry for a key while another bucket holds an
\* entry whose key cmp finds equal to it.
C19_Witness ==
    /\ last.op = "At"
    /\ events # <<>>
    /\ \E q \in Entries \ {last.ret} : cmp(table.cmp, last.key, pairs[q].key) = 0

\* C20: the key reference an entry holds is the one passed to the
\* HashTable_At call that allocated the entry, after every later call, and
\* it is the key reference HashTable_Destroy passes to onRemove for the entry.
C20_KeyFixedAtCreation ==
    [][/\ \A j \in DOMAIN created' :
             /\ created'[j].pair \in DOMAIN pairs'
             /\ pairs'[created'[j].pair].key = created'[j].key
       /\ (/\ last'.op = "Destroy"
           /\ HashTable_Ready(table)
           /\ table.onRemove # 0)
          => /\ Len(SelectSeq(events', IsOnRemove)) = Len(created)
             /\ \A c \in Range(created) :
                   \E j \in DOMAIN events' :
                      /\ IsOnRemove(events'[j])
                      /\ events'[j].addr = c.pair
                      /\ events'[j].key = c.key]_vars

\* HashTable_At was called with a key reference other than the one stored in
\* the entry it found, the second of its chain.
C20_Witness ==
    /\ last.op = "At"
    /\ events = <<>>
    /\ pairs[last.ret].key # last.key
    /\ \E i \in 0..(HASHSIZE - 1) :
          /\ Len(Chain(table, Mem, i)) = 2
          /\ Chain(table, Mem, i)[2] = last.ret

====
